---- MODULE Spec2Model ----
(***************************************************************************)
(* Inbound request authentication of the SwayTribe cloud functions:        *)
(* the JWKS-backed JWT middleware of helper/canva_jwt_verification.ts and   *)
(* the HTTPS endpoints of index.ts that run their handler behind it.        *)
(* Spec is their state machine.  SignedSpec applies the signed-request     *)
(* checks of helper/canva-helper.ts to requests drawn at the start.        *)
(*                                                                         *)
(* Time is counted in minutes.  The functions run on one event loop: a     *)
(* step of the model is what runs between two awaits that leave the loop   *)
(* (the fetch of the key set, the database query of a handler).            *)
(***************************************************************************)
EXTENDS Integers, Sequences, FiniteSets, TLC

(***************************************************************************)
(* Bounds of the model.                                                    *)
(***************************************************************************)
NumRequests == 2
NumCallers == 2
MaxLinked == 2
MaxTicks == 3
TickMinutes == 30

(***************************************************************************)
(* Program constants.                                                      *)
(***************************************************************************)
\* 60 minutes; every fetch ends (TIMEOUT_MS, 30 seconds) before the clock moves.
CACHE_EXPIRY_MS == 60
\* 5 minutes
COOKIE_EXPIRY_MS == 5
\* rateLimit: true, with the client's default budget of fetches per minute.
JwksRequestsPerMinute == 10

AppId == "APP"
OtherAppId == "OTHER"
Null == "null"
NoMessage == "undefined"

Requests == 1..NumRequests
SharedClient == 0
Clients == {SharedClient} \cup Requests
Kids == {"abc", "xyz"}
\* The key set the JWKS endpoint serves: it holds "abc" only.
JwksKeys == {"abc"}

\* The endpoints behind the module's jwtMiddleware (index.ts:20), and the
\* linking redirect, which builds its own middleware (index.ts:467).
BearerEndpoints == {"isUserLinkedToCanva"}
Endpoints == BearerEndpoints \cup {"redirectCanvaToSwayTribe"}

(***************************************************************************)
(* Characters.  A header or a token is a sequence of one-character strings.*)
(***************************************************************************)
Whitespace == {" ", "\t"}
JwtAlphabet ==
  {"a","b","c","d","e","f","g","h","i","j","k","l","m","n","o","p","q","r",
   "s","t","u","v","w","x","y","z","A","B","C","D","E","F","G","H","I","J",
   "K","L","M","N","O","P","Q","R","S","T","U","V","W","X","Y","Z","0","1",
   "2","3","4","5","6","7","8","9","+","/","-","_","=","."}

\* The "i" flag of the regular expressions, on the letters of the scheme.
Lower(c) ==
  CASE c = "B" -> "b" [] c = "E" -> "e" [] c = "A" -> "a" [] c = "R" -> "r"
    [] OTHER -> c

schemeName == <<"b", "e", "a", "r", "e", "r">>

\* ^Bearer at the start of h, case-insensitive.
StartsWithScheme(h) ==
  /\ Len(h) >= Len(schemeName)
  /\ \A i \in 1..Len(schemeName) : Lower(h[i]) = schemeName[i]

\* Number of whitespace characters of h from position i on, up to the first
\* character that is none.
RECURSIVE SpaceRun(_, _)
SpaceRun(h, i) ==
  IF i <= Len(h) /\ h[i] \in Whitespace THEN 1 + SpaceRun(h, i + 1) ELSE 0

\* header.match(/^Bearer\s+[^\s]+$/i)
MatchesBearerToken(h) ==
  /\ StartsWithScheme(h)
  /\ LET n == SpaceRun(h, Len(schemeName) + 1)
         first == Len(schemeName) + n + 1
     IN  /\ n >= 1
         /\ first <= Len(h)
         /\ \A i \in first..Len(h) : h[i] \notin Whitespace

\* header.replace(/^Bearer\s+/i, "")
StripScheme(h) ==
  IF StartsWithScheme(h) /\ SpaceRun(h, Len(schemeName) + 1) >= 1
  THEN SubSeq(h, Len(schemeName) + SpaceRun(h, Len(schemeName) + 1) + 1, Len(h))
  ELSE h

\* A looksLikeJWT that takes any character.
looksLikeJWTAnything(token) ==
  token # <<>>

\* token.match(/^[a-z0-9+/\-_=.]+$/i) != null
looksLikeJWT(token) ==
  /\ Len(token) >= 1
  /\ \A i \in 1..Len(token) : token[i] \in JwtAlphabet

(***************************************************************************)
(* Tokens.  A token is header "." payload "." signature, one character     *)
(* each; the character says what the segment decodes to.                   *)
(*   header    a: kid "abc"   x: kid "xyz"   n: no kid                     *)
(*   payload   p: aud APP, userId, brandId, not expired                    *)
(*             e: as p, expired      o: as p, aud OTHER                    *)
(*             u: as p, no userId    d: as p, no brandId                   *)
(*             m: as p, no aud       l: as p, aud [OTHER, APP]             *)
(*   signature v: made with the key of the header's kid    i: any other    *)
(* An audience is the set of its members (a string is a singleton, an      *)
(* absent aud the empty set).                                              *)
(***************************************************************************)
NoAud == {}

Tok(h, p, s) == <<h, ".", p, ".", s>>

\* A header that is given the kid xyz when it has none.
HeaderKidDefaulted(h) ==
  CASE h = "a" -> "abc" [] OTHER -> "xyz"

HeaderKid(h) ==
  CASE h = "a" -> "abc" [] h = "x" -> "xyz" [] OTHER -> Null

PayloadOf(p) ==
  [aud     |-> CASE p = "o" -> {OtherAppId} [] p = "m" -> NoAud
                 [] p = "l" -> {OtherAppId, AppId} [] OTHER -> {AppId},
   userId  |-> CASE p = "u" -> Null [] p = "q" -> "user2" [] OTHER -> "user1",
   brandId |-> CASE p = "d" -> Null [] p = "q" -> "brand2" [] OTHER -> "brand1",
   expired |-> (p = "e")]

HeaderChars == {"a", "x", "n"}
PayloadChars == {"p", "q", "e", "o", "u", "d", "m", "l"}

\* Three segments that decode.
WellFormed(token) ==
  /\ Len(token) = 5
  /\ token[2] = "." /\ token[4] = "."
  /\ token[1] \in HeaderChars
  /\ token[3] \in PayloadChars

\* jwt.decode(token, {complete: true}): null for what does not decode.
JwtDecode(token) ==
  IF WellFormed(token)
  THEN [decoded |-> TRUE, kid |-> HeaderKid(token[1]), payload |-> PayloadOf(token[3])]
  ELSE [decoded |-> FALSE, kid |-> Null, payload |-> PayloadOf("m")]

(***************************************************************************)
(* Errors: a thrown value is its class and its message.                    *)
(***************************************************************************)
Err(class, message) == [class |-> class, message |-> message]
NoError == Err("none", NoMessage)

\* e instanceof class.  TokenExpiredError derives from JsonWebTokenError.
InstanceOf(e, class) ==
  \/ e.class = class
  \/ e.class = "TokenExpiredError" /\ class = "JsonWebTokenError"

\* getTokenFromHttpHeader: the token, or the JWTAuthorizationError thrown.
getTokenFromHttpHeader(cred) ==
  IF cred.kind # "string" \/ cred.text = <<>>
  THEN [token |-> <<>>,
        error |-> Err("JWTAuthorizationError", "Missing the \"Authorization\" header")]
  ELSE IF ~ MatchesBearerToken(cred.text)
  THEN [token |-> <<>>,
        error |-> Err("JWTAuthorizationError",
                      "Missing a \"Bearer\" token in the \"Authorization\" header")]
  ELSE IF StripScheme(cred.text) = <<>> \/ ~ looksLikeJWT(StripScheme(cred.text))
  THEN [token |-> <<>>,
        error |-> Err("JWTAuthorizationError",
                      "Invalid \"Bearer\" token in the \"Authorization\" header")]
  ELSE [token |-> StripScheme(cred.text), error |-> NoError]

\* getTokenFromQueryString, on req.query.canva_user_token.
getTokenFromQueryString(cred) ==
  IF cred.kind # "string" \/ cred.text = <<>>
  THEN [token |-> <<>>,
        error |-> Err("JWTAuthorizationError",
                      "Missing \"canva_user_token\" query parameter")]
  ELSE IF ~ looksLikeJWT(cred.text)
  THEN [token |-> <<>>,
        error |-> Err("JWTAuthorizationError",
                      "Invalid \"canva_user_token\" query parameter")]
  ELSE [token |-> cred.text, error |-> NoError]

\* index.ts:20 passes no extractor (the header one); index.ts:467 the query one.
getTokenFromRequest(ep, cred) ==
  IF ep = "redirectCanvaToSwayTribe"
  THEN getTokenFromQueryString(cred)
  ELSE getTokenFromHttpHeader(cred)

(***************************************************************************)
(* jwt.verify(token, publicKey, {audience: appId, complete: true}) with    *)
(* the key of the token's kid: the error it throws, in the order the       *)
(* verification makes its checks, or NoError.                              *)
(***************************************************************************)
JwtVerify(token) ==
  LET payload == PayloadOf(token[3])
  IN  IF ~ WellFormed(token)
      THEN Err("JsonWebTokenError", "jwt malformed")
      ELSE IF token[5] # "v"
      THEN Err("JsonWebTokenError", "invalid signature")
      ELSE IF payload.expired
      THEN Err("TokenExpiredError", "jwt expired")
      ELSE IF AppId \notin payload.aud
      THEN Err("JsonWebTokenError", "jwt audience invalid")
      ELSE NoError

NoIdentity == [appId |-> NoAud, brandId |-> Null, userId |-> Null]

\* The payload check without its brandId line.
PayloadFieldsMissingNoBrand(payload) ==
  \/ payload.userId = Null
  \/ payload.aud = NoAud

\* Lines 84-99: the payload check and the identity built from the payload.
PayloadFieldsMissing(payload) ==
  \/ payload.userId = Null
  \/ payload.brandId = Null
  \/ payload.aud = NoAud

IdentityOf(payload) ==
  [appId |-> payload.aud, brandId |-> payload.brandId, userId |-> payload.userId]

(***************************************************************************)
(* Responses.  sendUnauthorizedResponse is the only response the           *)
(* middleware sends.                                                       *)
(***************************************************************************)
Response(from, status, body, message) ==
  [from |-> from, status |-> status, body |-> body, message |-> message]

sendUnauthorizedResponse(message) ==
  Response("jwtMiddleware", 401, "unauthorized", message)

\* The catch block without its SigningKeyNotFoundError branch.
CatchOutcomeNoKeyBranch(e) ==
  IF InstanceOf(e, "JWTAuthorizationError")
  THEN [next |-> FALSE, response |-> sendUnauthorizedResponse(e.message)]
  ELSE IF InstanceOf(e, "JsonWebTokenError")
  THEN [next |-> FALSE, response |-> sendUnauthorizedResponse("Token is invalid")]
  ELSE IF InstanceOf(e, "TokenExpiredError")
  THEN [next |-> FALSE, response |-> sendUnauthorizedResponse("Token expired")]
  ELSE [next |-> TRUE, response |-> sendUnauthorizedResponse(NoMessage)]

\* The catch block of the middleware: the response it sends for e, or
\* "next" when it hands e to the next stage.
CatchOutcome(e) ==
  IF InstanceOf(e, "JWTAuthorizationError")
  THEN [next |-> FALSE, response |-> sendUnauthorizedResponse(e.message)]
  ELSE IF InstanceOf(e, "SigningKeyNotFoundError")
  THEN [next |-> FALSE, response |-> sendUnauthorizedResponse("Public key not found")]
  ELSE IF InstanceOf(e, "JsonWebTokenError")
  THEN [next |-> FALSE, response |-> sendUnauthorizedResponse("Token is invalid")]
  ELSE IF InstanceOf(e, "TokenExpiredError")
  THEN [next |-> FALSE, response |-> sendUnauthorizedResponse("Token expired")]
  ELSE [next |-> TRUE, response |-> sendUnauthorizedResponse(NoMessage)]

\* What the middleware ends with: a response of its own, or a call of next
\* (with req.canva as it is then).
Reject(response) ==
  [kind |-> "reject", response |-> response, canva |-> NoIdentity, nextArg |-> NoError]
CallNext(identity, e) ==
  [kind |-> "next", response |-> sendUnauthorizedResponse(NoMessage),
   canva |-> identity, nextArg |-> e]

\* catch (e) { ... }, lines 102-120
Caught(e) ==
  IF CatchOutcome(e).next THEN CallNext(NoIdentity, e) ELSE Reject(CatchOutcome(e).response)

\* Lines 77-101 with the payload check made on the decoded token, before
\* jwt.verify.
VerifyAndAttachPayloadFirst(token) ==
  LET e == JwtVerify(token)
      payload == JwtDecode(token).payload
  IN  IF PayloadFieldsMissing(payload)
      THEN Reject(sendUnauthorizedResponse(NoMessage))
      ELSE IF e # NoError THEN Caught(e)
      ELSE CallNext(IdentityOf(payload), NoError)

\* Lines 77-101, with the key of the token's kid.
VerifyAndAttach(token) ==
  LET e == JwtVerify(token)
      payload == JwtDecode(token).payload
  IN  IF e # NoError THEN Caught(e)
      ELSE IF PayloadFieldsMissing(payload)
      THEN Reject(sendUnauthorizedResponse(NoMessage))
      ELSE CallNext(IdentityOf(payload), NoError)

\* The middleware once getSigningKey has settled, with keyError or a key.
AfterKey(token, keyError) ==
  IF keyError # NoError THEN Caught(keyError) ELSE VerifyAndAttach(token)

(***************************************************************************)
(* The endpoints' handler bodies: the callback given to the middleware as  *)
(* next.  It takes no argument, so it runs whatever next is called with.   *)
(***************************************************************************)
\* What environment() may answer.
Environments == {"DEV", "PROD", "NONE"}

\* redirectCanvaToSwayTribe, lines 469-492.  extendedReq.canva.userId throws
\* outside any try when req.canva was never set: no response is sent.
RedirectHandler(identity, env) ==
  IF identity = NoIdentity THEN <<>>
  ELSE IF env = "DEV"
  THEN <<Response("handler", 302, "localhost/authenticate/canva", NoMessage)>>
  ELSE IF env = "PROD"
  THEN <<Response("handler", 302, "swaytribe/authenticate/canva", NoMessage)>>
  ELSE <<Response("handler", 401, "FAIL", "Invalid environment")>>

\* isUserLinkedToCanva, lines 296-324, after the query has answered.
LinkedResponse(found) ==
  IF found
  THEN Response("handler", 200, "isAuthenticated:true", NoMessage)
  ELSE Response("handler", 401, "isAuthenticated:false", "User not found in SwayTribe")

\* user.userId throws inside the try when req.canva was never set.
UndefinedUserResponse ==
  Response("handler", 401, "isAuthenticated:false", "TypeError")

\* The state a request is left in by the end of the middleware and of what
\* the handler body runs before its first await.
Settle(ep, out, env) ==
  IF out.kind = "reject"
  THEN [pc |-> "done", canva |-> out.canva, nextArgs |-> <<>>, handlerRan |-> FALSE,
        responses |-> <<out.response>>]
  ELSE [pc |-> IF ep \in BearerEndpoints /\ out.canva # NoIdentity
               THEN "handler" ELSE "done",
        canva |-> out.canva,
        nextArgs |-> <<out.nextArg>>,
        handlerRan |-> TRUE,
        responses |-> IF ep = "redirectCanvaToSwayTribe"
                      THEN RedirectHandler(out.canva, env)
                      ELSE IF out.canva = NoIdentity THEN <<UndefinedUserResponse>>
                      ELSE <<>>]

(***************************************************************************)
(* Inputs of a request.                                                    *)
(***************************************************************************)
Tokens ==
  { Tok("a", "p", "v"), Tok("n", "p", "v"), Tok("x", "p", "v"),
    Tok("a", "u", "i"), Tok("a", "e", "v"), Tok("a", "o", "v"),
    Tok("a", "u", "v"), Tok("a", "d", "v"), Tok("a", "m", "v"),
    Tok("a", "l", "v"), <<"g">> }

\* Requests meet only in a JwksClient, where a request counts by the kid of
\* its token and nothing else.  Request 1 carries any input; the requests
\* around it carry a token of each kind of kid, well presented.
TokensOf(r) ==
  IF r = 1 THEN Tokens ELSE {Tok("a", "q", "v"), Tok("x", "p", "v")}

Absent == [kind |-> "absent", text |-> <<>>]
Str(text) == [kind |-> "string", text |-> text]
Bearer == <<"B", "e", "a", "r", "e", "r">>

\* Values of the Authorization header.
MalformedHeaders ==
  { Absent, Str(<<>>), Str(Bearer), Str(<<"B", "a", "s", "i", "c", " ", "g">>),
    Str(Bearer \o <<" ", "g", " ", "g">>), Str(Bearer \o <<" ", "#">>) }

AuthorizationHeaders(r) ==
  { Str(Bearer \o <<" ">> \o t) : t \in TokensOf(r) } \cup
  { Str(<<"b", "E", "A", "R", "E", "R", "\t", " ">> \o Tok("a", "p", "v")) } \cup
  (IF r = 1 THEN MalformedHeaders ELSE {})

\* Values of the canva_user_token query parameter (an array when repeated).
MalformedQueryParams ==
  { Absent, Str(<<>>), Str(<<"#">>), [kind |-> "array", text |-> Tok("a", "p", "v")] }

TokenQueryParams(r) ==
  { Str(t) : t \in TokensOf(r) } \cup (IF r = 1 THEN MalformedQueryParams ELSE {})

\* The signed nonceWithExpiry cookie as cookie-parser hands it over, and the
\* nonce query parameter.
NoCookie == [kind |-> "absent", nonce |-> "", expiry |-> 0]
\* A cookie whose signature does not verify is handed over as false; a signed
\* value that is no JSON text makes JSON.parse throw.
BadSignatureCookie == [kind |-> "false", nonce |-> "", expiry |-> 0]
UnparseableCookie == [kind |-> "text", nonce |-> "", expiry |-> 0]
NonceCookies(t) ==
  {NoCookie, BadSignatureCookie, UnparseableCookie} \cup
  [kind : {"pair"}, nonce : {"", "n1"}, expiry : {t - 1, t, t + COOKIE_EXPIRY_MS}]
NonceQueries == {Null, "", "n1", "n2"}

\* The first request tries every cookie and nonce, the others a good pair
\* and a missing cookie.
NonceCookiesOf(r, t) ==
  IF r = 1 THEN NonceCookies(t)
  ELSE {NoCookie, [kind |-> "pair", nonce |-> "n1", expiry |-> t + COOKIE_EXPIRY_MS]}
NonceQueriesOf(r) == IF r = 1 THEN NonceQueries ELSE {"n1"}

\* Lines 436-437 of index.ts throw for a cookie that is no [nonce, expiry].
CookieParses(cookie) == cookie.kind = "pair"

\* The condition without its test of the expiry.
NonceIsValidNoExpiry(cookie, nonceQuery, t) ==
  /\ nonceQuery # Null
  /\ Len(cookie.nonce) >= 1
  /\ Len(nonceQuery) >= 1
  /\ cookie.nonce = nonceQuery

\* The condition of index.ts:442-449, negated.
NonceIsValid(cookie, nonceQuery, t) ==
  /\ ~ (t > cookie.expiry)
  /\ nonceQuery # Null
  /\ Len(cookie.nonce) >= 1
  /\ Len(nonceQuery) >= 1
  /\ cookie.nonce = nonceQuery

InvalidNonceRedirect == Response("handler", 302, "invalid_nonce", NoMessage)

\* The redirect of index.ts:459-461: success=false, the request's state,
\* errors=invalid_nonce.
InvalidNonceRedirectTo(state) == [InvalidNonceRedirect EXCEPT !.message = state]

\* The method and the state query parameter of a request.
Methods(r) == IF r = 1 THEN {"POST"} ELSE {"GET"}
CanvaStates(r) == IF r = 1 THEN {"s1"} ELSE {"s2"}

\* What a request carried besides its token.
Received(method, cookie, nonceQuery, state) ==
  [method |-> method, cookie |-> cookie, nonce |-> nonceQuery, state |-> state]
NotReceived == Received("none", NoCookie, Null, NoMessage)

\* crypto.randomUUID() (index.ts:391) draws from a space in which no value
\* is met twice.
Nonces == {"n1", "n2"}

\* The cookie without the signed flag.
NonceWithExpiryCookieUnsigned(nonce, t) ==
  [value |-> [kind |-> "pair", nonce |-> nonce, expiry |-> t + COOKIE_EXPIRY_MS],
   httpOnly |-> TRUE, secure |-> TRUE, signed |-> FALSE,
   maxAge |-> COOKIE_EXPIRY_MS]

\* res.cookie("nonceWithExpiry", JSON.stringify([nonce, nonceExpiry]), ...)
\* of index.ts:394-405, sent at time t.
NonceWithExpiryCookie(nonce, t) ==
  [value |-> [kind |-> "pair", nonce |-> nonce, expiry |-> t + COOKIE_EXPIRY_MS],
   httpOnly |-> TRUE, secure |-> TRUE, signed |-> TRUE,
   maxAge |-> COOKIE_EXPIRY_MS]

\* The redirect of index.ts:408-417 to Canva's authorization page.
ConfigureLinkRedirect(state, nonce) ==
  [location |-> "https://www.canva.com/apps/configure/link",
   state |-> state, nonce |-> nonce]

\* What /configuration/start answered with.
Configured(cookie, redirect) == [cookie |-> cookie, redirect |-> redirect]
NotConfigured ==
  Configured([value |-> NoCookie, httpOnly |-> FALSE, secure |-> FALSE,
              signed |-> FALSE, maxAge |-> 0],
             ConfigureLinkRedirect(NoMessage, Null))

(***************************************************************************)
(* Signed requests: helper/canva-helper.ts.  A string is the sequence of   *)
(* its characters; a byte is its value.                                    *)
(***************************************************************************)
\* The printable characters in code-unit order, from " " (32) to "~" (126);
\* the quote, the backslash and the backtick are spelled out.
Ascii ==
  <<
     " ", "!", "quote", "#", "$", "%", "&", "'", "(", ")", "*", "+",
     ",", "-", ".", "/", "0", "1", "2", "3", "4", "5", "6", "7",
     "8", "9", ":", ";", "<", "=", ">", "?", "@", "A", "B", "C",
     "D", "E", "F", "G", "H", "I", "J", "K", "L", "M", "N", "O",
     "P", "Q", "R", "S", "T", "U", "V", "W", "X", "Y", "Z", "[",
     "backslash", "]", "^", "_", "backtick", "a", "b", "c", "d", "e", "f", "g",
     "h", "i", "j", "k", "l", "m", "n", "o", "p", "q", "r", "s",
     "t", "u", "v", "w", "x", "y", "z", "{", "|", "}", "~"
  >>

\* The UTF-16 code unit of c, which the default sort of an array compares.
CodeUnit(c) == 31 + (CHOOSE i \in 1..Len(Ascii) : Ascii[i] = c)

\* a < b as strings compared by code units.
RECURSIVE StringLess(_, _)
StringLess(a, b) ==
  IF b = <<>> THEN FALSE
  ELSE IF a = <<>> THEN TRUE
  ELSE IF a[1] # b[1] THEN CodeUnit(a[1]) < CodeUnit(b[1])
  ELSE StringLess(Tail(a), Tail(b))

\* name.startsWith(prefix)
startsWith(name, prefix) ==
  /\ Len(name) >= Len(prefix)
  /\ SubSeq(name, 1, Len(prefix)) = prefix

\* haystack.includes(needle)
includes(haystack, needle) ==
  \E i \in 0..(Len(haystack) - Len(needle)) :
    SubSeq(haystack, i + 1, i + Len(needle)) = needle

\* parts.join(":")
RECURSIVE join(_)
join(parts) ==
  IF parts = <<>> THEN <<>>
  ELSE IF Len(parts) = 1 THEN parts[1]
  ELSE parts[1] \o <<":">> \o join(Tail(parts))

\* A JavaScript object with string keys: its properties in insertion order.
Prop(name, value) == [name |-> name, value |-> value]

\* Object.keys(object)
Keys(object) == [i \in 1..Len(object) |-> object[i].name]

\* object[key]; Absent stands for undefined.
Get(object, key) ==
  IF \E i \in 1..Len(object) : object[i].name = key
  THEN Str(object[CHOOSE i \in 1..Len(object) : object[i].name = key].value)
  ELSE Absent

\* String(value) of a template literal or of String(): "undefined" for
\* undefined.
StringOf(value) ==
  IF value.kind = "absent"
  THEN <<"u", "n", "d", "e", "f", "i", "n", "e", "d">>
  ELSE value.text

\* An array sort that leaves the names as they are.
sortKeepsOrder(names) == names

\* names.sort(): ascending by code units.  The names of an object are
\* distinct, so the least remaining name is one name.
RECURSIVE sort(_)
sort(names) ==
  IF names = <<>> THEN <<>>
  ELSE LET least == CHOOSE i \in 1..Len(names) :
                      \A j \in 1..Len(names) : ~ StringLess(names[j], names[i])
       IN  <<names[least]>> \o
           sort(SubSeq(names, 1, least - 1) \o SubSeq(names, least + 1, Len(names)))

(***************************************************************************)
(* Number(value) of a header or query value.  The values of the model are  *)
(* undefined, the empty string, runs of decimal digits and strings with a  *)
(* letter in them; a number is a record, for NaN has no place in Int.      *)
(***************************************************************************)
Digit == <<"0", "1", "2", "3", "4", "5", "6", "7", "8", "9">>
IsDigit(c) == \E d \in 1..Len(Digit) : Digit[d] = c
DigitValue(c) == (CHOOSE d \in 1..Len(Digit) : Digit[d] = c) - 1

NaN == [nan |-> TRUE, value |-> 0]
Num(n) == [nan |-> FALSE, value |-> n]

RECURSIVE Decimal(_)
Decimal(text) ==
  IF text = <<>> THEN 0
  ELSE 10 * Decimal(SubSeq(text, 1, Len(text) - 1)) + DigitValue(text[Len(text)])

Number(value) ==
  IF value.kind = "absent" THEN NaN
  ELSE IF value.text = <<>> THEN Num(0)
  ELSE IF \A i \in 1..Len(value.text) : IsDigit(value.text[i])
  THEN Num(Decimal(value.text))
  ELSE NaN

Abs(n) == IF n < 0 THEN 0 - n ELSE n

MAX_TIME_DIFFERENCE_SECONDS == 300

\* !(Math.abs(sentAt - receivedAt) >= 300): true of NaN.
isValidTimestampNotTooFar(sentAt, receivedAtMs) ==
  ~ (/\ ~ sentAt.nan
     /\ Abs(1000 * sentAt.value - receivedAtMs) >= 1000 * MAX_TIME_DIFFERENCE_SECONDS)

\* Math.abs(sentAt - receivedAt) <= 300: the limit itself taken as valid.
isValidTimestampInclusive(sentAt, receivedAtMs) ==
  /\ ~ sentAt.nan
  /\ Abs(1000 * sentAt.value - receivedAtMs) <= 1000 * MAX_TIME_DIFFERENCE_SECONDS

\* isValidTimestamp(sentAt, receivedAt) with receivedAt = getTime() / 1000,
\* a fraction of a second: both sides of the comparison are taken in
\* milliseconds.  Every comparison with NaN is false.
isValidTimestamp(sentAt, receivedAtMs) ==
  /\ ~ sentAt.nan
  /\ Abs(1000 * sentAt.value - receivedAtMs) < 1000 * MAX_TIME_DIFFERENCE_SECONDS

(***************************************************************************)
(* Canonical strings.  Node hands the names of the headers in lower case.  *)
(***************************************************************************)
xPrefix == <<"x", "-">>

\* A deny-list that lists the timestamp header too.
FILTERED_HEADERS_AND_TIMESTAMP ==
  { <<"x", "-", "c", "a", "n", "v", "a", "-", "s", "i", "g", "n", "a", "t", "u", "r", "e">>,
    <<"x", "-", "f", "o", "r", "w", "a", "r", "d", "e", "d", "-">>,
    <<"x", "-", "c", "a", "n", "v", "a", "-", "t", "i", "m", "e", "s", "t", "a", "m", "p">> }

FILTERED_HEADERS ==
  { <<"x", "-", "c", "a", "n", "v", "a", "-", "s", "i", "g", "n", "a", "t", "u", "r", "e">>,
    <<"x", "-", "f", "o", "r", "w", "a", "r", "d", "e", "d", "-">> }

createHeaderString(headers) ==
  LET hasPrefix(header) == startsWith(header, xPrefix)
      notFiltered(header) ==
        ~ \E filteredHeader \in FILTERED_HEADERS : startsWith(header, filteredHeader)
      names == sort(SelectSeq(SelectSeq(Keys(headers), hasPrefix), notFiltered))
  IN  join([i \in 1..Len(names) |-> StringOf(Get(headers, names[i]))])

createQueryParameterString(params) ==
  LET hasPrefix(param) == startsWith(param, xPrefix)
      names == sort(SelectSeq(Keys(params), hasPrefix))
  IN  join([i \in 1..Len(names) |-> StringOf(Get(params, names[i]))])

(***************************************************************************)
(* Signatures.                                                             *)
(***************************************************************************)
Base64Alphabet ==
  <<
     "A", "B", "C", "D", "E", "F", "G", "H", "I", "J", "K", "L", "M", "N", "O", "P",
     "Q", "R", "S", "T", "U", "V", "W", "X", "Y", "Z", "a", "b", "c", "d", "e", "f",
     "g", "h", "i", "j", "k", "l", "m", "n", "o", "p", "q", "r", "s", "t", "u", "v",
     "w", "x", "y", "z", "0", "1", "2", "3", "4", "5", "6", "7", "8", "9", "+", "/"
  >>

\* The six bits of a character: the standard alphabet and the URL-safe one.
IsBase64(c) == c \in {"-", "_"} \/ \E i \in 1..Len(Base64Alphabet) : Base64Alphabet[i] = c
Sextet(c) ==
  IF c = "-" THEN 62
  ELSE IF c = "_" THEN 63
  ELSE (CHOOSE i \in 1..Len(Base64Alphabet) : Base64Alphabet[i] = c) - 1

\* The text up to the first "=".
RECURSIVE UpToPadding(_)
UpToPadding(text) ==
  IF text = <<>> \/ text[1] = "=" THEN <<>>
  ELSE <<text[1]>> \o UpToPadding(Tail(text))

RECURSIVE DecodeSextets(_)
DecodeSextets(v) ==
  IF Len(v) < 2 THEN <<>>
  ELSE IF Len(v) = 2 THEN << v[1] * 4 + v[2] \div 16 >>
  ELSE IF Len(v) = 3 THEN << v[1] * 4 + v[2] \div 16, (v[2] % 16) * 16 + v[3] \div 4 >>
  ELSE << v[1] * 4 + v[2] \div 16, (v[2] % 16) * 16 + v[3] \div 4, (v[3] % 4) * 64 + v[4] >>
       \o DecodeSextets(SubSeq(v, 5, Len(v)))

\* Buffer.from(secret, "base64"): characters outside the alphabets are
\* skipped, the bits left over at the end are dropped.
Base64Decode(secret) ==
  LET chars == SelectSeq(UpToPadding(secret), IsBase64)
  IN  DecodeSextets([i \in 1..Len(chars) |-> Sextet(chars[i])])

\* HMAC pads a key of up to 64 bytes with zero bytes to the block size.
RECURSIVE HmacKey(_)
HmacKey(key) ==
  IF key # <<>> /\ key[Len(key)] = 0
  THEN HmacKey(SubSeq(key, 1, Len(key) - 1))
  ELSE key

\* The number of characters of a digest in hex (64 in the code).
HexLen == 2

\* createHmac("sha256", key).update(payload).digest("hex"), taken as free of
\* collisions: the i-th character of a digest is named by what was hashed.
HexDigest(key, payload) ==
  [i \in 1..HexLen |-> ToString(<<"hex", HmacKey(key), payload, i>>)]

\* A calculateSignature that hashes the payload without the secret.
calculateSignatureNoSecret(payload, secret) ==
  HexDigest(<<>>, payload)

calculateSignature(payload, secret) ==
  HexDigest(Base64Decode(secret), payload)

v1 == <<"v", "1">>

NotHashed == <<"not hashed">>

\* The outcome of a check: what was hashed, if anything, and the result.
Checked(payload, valid) == [done |-> TRUE, payload |-> payload, valid |-> valid]
Pending == [done |-> FALSE, payload |-> NotHashed, valid |-> FALSE]

\* ${version}:${headers}:${endpoint}:${body}
PostPayload(request) ==
  v1 \o <<":">> \o createHeaderString(request.headers) \o <<":">> \o request.path
     \o <<":">> \o request.rawBody

\* ${version}:${headers}:${endpoint}:${params}
GetPayload(request) ==
  v1 \o <<":">> \o createHeaderString(request.headers) \o <<":">> \o request.path
     \o <<":">> \o createQueryParameterString(request.query)

\* The fields of the redirect in alphabetical order.
RedirectPayloadSorted(request) ==
  LET q(name) == StringOf(Get(request.query, name))
  IN  v1 \o <<":">> \o q(<<"b", "r", "a", "n", "d">>) \o <<":">> \o q(<<"e", "x", "t", "e", "n", "s", "i", "o", "n", "s">>)
         \o <<":">> \o q(<<"s", "t", "a", "t", "e">>) \o <<":">> \o q(<<"t", "i", "m", "e">>)
         \o <<":">> \o q(<<"u", "s", "e", "r">>)

\* ${version}:${time}:${user}:${brand}:${extensions}:${state}
RedirectPayload(request) ==
  LET q(name) == StringOf(Get(request.query, name))
  IN  v1 \o <<":">> \o q(<<"t", "i", "m", "e">>) \o <<":">> \o q(<<"u", "s", "e", "r">>)
         \o <<":">> \o q(<<"b", "r", "a", "n", "d">>) \o <<":">> \o q(<<"e", "x", "t", "e", "n", "s", "i", "o", "n", "s">>)
         \o <<":">> \o q(<<"s", "t", "a", "t", "e">>)

timestampHeader == <<"x", "-", "c", "a", "n", "v", "a", "-", "t", "i", "m", "e", "s", "t", "a", "m", "p">>
signaturesHeader == <<"x", "-", "c", "a", "n", "v", "a", "-", "s", "i", "g", "n", "a", "t", "u", "r", "e", "s">>

isValidPostRequest(secret, request, receivedAtMs) ==
  IF ~ isValidTimestamp(Number(Get(request.headers, timestampHeader)), receivedAtMs)
  THEN Checked(NotHashed, FALSE)
  ELSE Checked(PostPayload(request),
               includes(StringOf(Get(request.headers, signaturesHeader)),
                        calculateSignature(PostPayload(request), secret)))

isValidGetRequest(secret, request, receivedAtMs) ==
  IF ~ isValidTimestamp(Number(Get(request.headers, timestampHeader)), receivedAtMs)
  THEN Checked(NotHashed, FALSE)
  ELSE Checked(GetPayload(request),
               includes(StringOf(Get(request.headers, signaturesHeader)),
                        calculateSignature(GetPayload(request), secret)))

isValidRedirectUrl(secret, request, receivedAtMs) ==
  IF ~ isValidTimestamp(Number(Get(request.query, <<"t", "i", "m", "e">>)), receivedAtMs)
  THEN Checked(NotHashed, FALSE)
  ELSE Checked(RedirectPayload(request),
               includes(StringOf(Get(request.query, <<"s", "i", "g", "n", "a", "t", "u", "r", "e", "s">>)),
                        calculateSignature(RedirectPayload(request), secret)))

(***************************************************************************)
(* Inputs of a signed request.  A request is signed by its sender with a   *)
(* secret over a payload; the function checks it with the secret of the    *)
(* application.                                                            *)
(***************************************************************************)
Forms == {"POST", "GET", "REDIRECT"}

\* The secrets: "secret" in base64, the same with its last byte changed,
\* "secretA" in base64 without padding and the same with its last
\* character changed within the bits that decoding drops.
Secrets ==
  { <<"c", "2", "V", "j", "c", "m", "V", "0">>,
    <<"c", "2", "V", "j", "c", "m", "V", "1">>,
    <<"c", "2", "V", "j", "c", "m", "V", "0", "Q", "Q">>,
    <<"c", "2", "V", "j", "c", "m", "V", "0", "Q", "R">> }
AppSecret == <<"c", "2", "V", "j", "c", "m", "V", "0">>

\* Date.getTime() at the check, in milliseconds: on a second, and between two.
ReceivedAt == {1000000, 1000500}

\* The seconds a claimed time lies away from the second of the check.
Skews == {-301, -300, -299, 0, 299, 300, 301}

\* The decimal digits of n.
RECURSIVE Digits(_)
Digits(n) ==
  IF n < 10 THEN <<Digit[n + 1]>>
  ELSE Digits(n \div 10) \o <<Digit[(n % 10) + 1]>>

NotNumeric == { Str(<<"a", "b", "c">>), Str(<<"1", "2", "a">>) }

\* Values of the X-Canva-Timestamp header and of the time parameter.
TimestampClaims(receivedAtMs) ==
  { Str(Digits(receivedAtMs \div 1000 + d)) : d \in Skews }
    \cup NotNumeric \cup { Absent, Str(<<>>) }

Paths == { <<"/", "h", "o", "o", "k">> }
Bodies == { <<>>, <<"{", "}">> }

OneProp(name, value) ==
  IF value.kind = "absent" THEN <<>> ELSE <<Prop(name, value.text)>>

\* The request of a form with a timestamp claim and a signature value, and
\* with more headers and query parameters.
Request(form, claim, signatures, headers, path, body, query) ==
  IF form = "REDIRECT"
  THEN [form |-> form, headers |-> headers, path |-> path, rawBody |-> <<>>,
        query |-> OneProp(<<"t", "i", "m", "e">>, claim)
                    \o << Prop(<<"u", "s", "e", "r">>, <<"u", "1">>), Prop(<<"b", "r", "a", "n", "d">>, <<"b", "1">>),
                          Prop(<<"e", "x", "t", "e", "n", "s", "i", "o", "n", "s">>, <<"e", "1">>), Prop(<<"s", "t", "a", "t", "e">>, <<"s", "1">>) >>
                    \o OneProp(<<"s", "i", "g", "n", "a", "t", "u", "r", "e", "s">>, signatures) \o query]
  ELSE [form |-> form,
        headers |-> OneProp(timestampHeader, claim)
                      \o OneProp(signaturesHeader, signatures) \o headers,
        path |-> path, rawBody |-> body, query |-> query]

NoRequest ==
  [form |-> "none", headers |-> <<>>, path |-> <<>>, rawBody |-> <<>>, query |-> <<>>]

\* The payload the function of the request's form hashes.
PayloadOfRequest(request) ==
  CASE request.form = "POST" -> PostPayload(request)
    [] request.form = "GET" -> GetPayload(request)
    [] OTHER -> RedirectPayload(request)

\* What the sender signs: the payload, the payload with its first or its
\* last byte changed, or the payload of the request without its timestamp.
Tampers == {"none", "first", "last", "noTimestamp"}

ChangeByte(c) == IF c = "#" THEN "$" ELSE "#"

SignedPayload(tamper, form, claim, headers, path, body, query) ==
  LET p == PayloadOfRequest(Request(form, claim, Absent, headers, path, body, query))
  IN  CASE tamper = "first" -> [p EXCEPT ![1] = ChangeByte(@)]
        [] tamper = "last" -> [p EXCEPT ![Len(p)] = ChangeByte(@)]
        [] tamper = "noTimestamp" ->
             PayloadOfRequest(Request(form, Absent, Absent, headers, path, body, query))
        [] OTHER -> p

\* The value of the signature header around the sender's signature: alone,
\* with a character after or before it, in a comma-separated list with the
\* signature of another signer, or without it.
Decorations ==
  {"exact", "trailing", "leading", "first", "last", "middle", "other", "none"}

Decorate(decoration, signature, other) ==
  CASE decoration = "exact" -> Str(signature)
    [] decoration = "trailing" -> Str(signature \o <<"0">>)
    [] decoration = "leading" -> Str(<<"0">> \o signature)
    [] decoration = "first" -> Str(signature \o <<",">> \o other)
    [] decoration = "last" -> Str(other \o <<",">> \o signature)
    [] decoration = "middle" -> Str(other \o <<",">> \o signature \o <<",">> \o other)
    [] decoration = "other" -> Str(other)
    [] OTHER -> Absent

OtherSignature == HexDigest(<<1>>, <<"e", "l", "s", "e">>)

\* The arrangements of the properties of an object.
Arrangements(object) ==
  { [i \in 1..Len(object) |-> object[p[i]]] : p \in Permutations(1..Len(object)) }

\* Headers and query parameters a request may carry besides the two above.
MoreHeaders ==
  { <<>>,
    << Prop(<<"x", "-", "c", "a", "n", "v", "a", "-", "u", "s", "e", "r">>, <<"u", "1">>) >>,
    << Prop(<<"x", "-", "f", "o", "r", "w", "a", "r", "d", "e", "d", "-", "f", "o", "r">>, <<"f", "1">>) >>,
    << Prop(<<"c", "o", "n", "t", "e", "n", "t", "-", "t", "y", "p", "e">>, <<"c", "1">>) >>,
    << Prop(<<"x", "-", "c", "a", "n", "v", "a", "-", "u", "s", "e", "r">>, <<"u", "1">>), Prop(<<"x", "-", "c", "a", "n", "v", "a", "-", "a", "p", "p">>, <<"a", "1">>) >>,
    << Prop(<<"x", "-", "f", "o", "r", "w", "a", "r", "d", "e", "d", "-", "f", "o", "r">>, <<"f", "1">>), Prop(<<"x", "-", "c", "a", "n", "v", "a", "-", "s", "i", "g", "n", "a", "t", "u", "r", "e", "-", "a", "l", "g">>, <<"g", "1">>) >> }

MoreQueries ==
  { <<>>,
    << Prop(<<"x", "-", "a">>, <<"q", "1">>) >>,
    << Prop(<<"q">>, <<"q", "3">>) >>,
    << Prop(<<"x", "-", "a">>, <<"q", "1">>), Prop(<<"x", "-", "B">>, <<"q", "2">>) >>,
    << Prop(<<"x", "-", "a">>, <<"q", "1">>), Prop(<<"x", "-", "b">>, <<"q", "2">>), Prop(<<"q">>, <<"q", "3">>) >>,
    << Prop(<<"X", "-", "c">>, <<"q", "3">>), Prop(<<"x", "-", "b">>, <<"q", "2">>) >> }

Scenario(form, ms, claim, sec, signer, tamper, decoration, headers, path, body, query) ==
  [ request |->
      Request(form, claim,
              Decorate(decoration,
                       calculateSignature(
                         SignedPayload(tamper, form, claim, headers, path, body, query),
                         signer),
                       OtherSignature),
              headers, path, body, query),
    secret |-> sec,
    receivedAtMs |-> ms ]

\* The claimed times, each signed as it should be and signed over another
\* payload.
TimestampScenarios ==
  { Scenario(form, ms, claim, AppSecret, AppSecret, tamper, "exact",
             <<>>, path, <<>>, <<>>) :
      form \in Forms, ms \in ReceivedAt,
      claim \in UNION { TimestampClaims(t) : t \in ReceivedAt },
      tamper \in {"none", "last"}, path \in Paths }

\* The signatures, on a request whose time is the time of the check.
SignatureScenarios ==
  { Scenario(form, 1000000, Str(Digits(1000)), secret, signer, tamper, decoration,
             <<>>, path, <<>>, <<>>) :
      form \in Forms, secret \in Secrets, signer \in Secrets, tamper \in Tampers,
      decoration \in Decorations, path \in Paths }

\* The headers and the query parameters in each order of insertion.
CanonicalScenarios ==
  UNION { { Scenario(form, 1000000, Str(Digits(1000)), AppSecret, AppSecret, "none",
                     "exact", h, path, body, q) :
              h \in Arrangements(headers), q \in Arrangements(query) } :
          form \in {"POST", "GET"}, path \in Paths, body \in Bodies,
          headers \in MoreHeaders, query \in MoreQueries }

Scenarios == TimestampScenarios \cup SignatureScenarios \cup CanonicalScenarios

(***************************************************************************)
(* The users collection and the functions that link and unlink.            *)
(***************************************************************************)
\* The documents users/{uid}, the Canva users and brands of the tokens, and
\* the calls in progress at once.
Accounts == {"acct1", "acct2"}
CanvaUsers == {"user1", "user2"}
CanvaBrands == {"brand1", "brand2"}
Callers == 1..NumCallers
\* linkUserToCanva is called by one signed-in user at a time.
Linkers == {1}

\* The fields of a document the functions read and write.  A document
\* starts without canvaUserId and canvaBrandIds.
UserDoc(canvaUserId, hasBrandIds, canvaBrandIds) ==
  [canvaUserId |-> canvaUserId, hasBrandIds |-> hasBrandIds,
   canvaBrandIds |-> canvaBrandIds]
NewUserDoc == UserDoc(NoMessage, FALSE, {})

\* where('canvaUserId', '==', userId).where('canvaBrandIds',
\* 'array-contains', brandId) (index.ts:300, 339).
Matching(docs, userId, brandId) ==
  { a \in Accounts : /\ docs[a].canvaUserId = userId
                     /\ brandId \in docs[a].canvaBrandIds }

\* userDoc.set(..., {merge: true}) of index.ts:259-271: the brand list is
\* created when the snapshot had none, and joined by arrayUnion otherwise.
LinkSet(doc, hadBrandIds, canvaUserId, canvaBrandId) ==
  IF ~ hadBrandIds
  THEN UserDoc(canvaUserId, TRUE, {canvaBrandId})
  ELSE UserDoc(canvaUserId, TRUE, doc.canvaBrandIds \cup {canvaBrandId})

\* doc.ref.update(...) of index.ts:359-372: arrayRemove of the brand, and
\* canvaUserId: '' when the snapshot's list had one element.
UnlinkUpdate(doc, snapshotLength, brandId) ==
  IF snapshotLength = 1
  THEN UserDoc("", doc.hasBrandIds, doc.canvaBrandIds \ {brandId})
  ELSE UserDoc(doc.canvaUserId, doc.hasBrandIds, doc.canvaBrandIds \ {brandId})

\* A call: idle, or between the read and the write of a link or an unlink.
Call(at, account, userId, brandId, hadBrandIds, length) ==
  [pc |-> at, account |-> account, userId |-> userId, brandId |-> brandId,
   hadBrandIds |-> hadBrandIds, length |-> length]
Idle == Call("idle", "none", Null, Null, FALSE, 0)

\* The last answer of isUserLinkedToCanva (lines 310-321) or refusal of
\* unlinkUserFromCanva (line 380).
Answer(of, userId, brandId, status, ok) ==
  [of |-> of, userId |-> userId, brandId |-> brandId, status |-> status, ok |-> ok]
NoAnswer == Answer("none", Null, Null, 0, FALSE)

(***************************************************************************)
(* State.                                                                  *)
(***************************************************************************)
VARIABLES
  now,          \* Date.now(), in minutes
  bucket,       \* per JwksClient: fetches its rate limiter still allows
  cache,        \* per JwksClient and kid: the cached key's fetch time, or NoEntry
  loading,      \* per JwksClient: the kids a fetch is in flight for
  pc,           \* per request: where its handling stands
  endpoint,     \* per request: the function it was sent to
  credential,   \* per request: the header or query parameter the token is read from
  token,        \* per request: the token the middleware extracted
  keyResult,    \* per request: the error getSigningKey settled with, or NoError
  canva,        \* per request: req.canva
  nextArgs,     \* per request: the arguments of the middleware's calls of next
  handlerRan,   \* per request: the handler body behind the middleware started
  responses,    \* per request: the responses sent, in order
  cookieCleared,\* per request: res.clearCookie('nonceWithExpiry') was called
  fetches,      \* per request: the fetches of the key set its lookup started
  received,     \* per request: its method, nonce cookie, nonce and state parameters
  configured,   \* per request: the cookie and redirect /configuration/start sent
  aborted,      \* per request: the client closed the connection
  users,        \* per account: its document in the users collection
  calls,        \* per caller: its call of linkUserToCanva or unlinkUserFromCanva
  linked,       \* the (account, user, brand) linked and not unlinked since
  answer,       \* the last answer sent by a function on the collection
  request,      \* the signed request under check
  secret,       \* the secret it is checked with
  receivedAtMs, \* new Date().getTime() at the check
  verdict       \* the outcome of the check

jwtVars == <<now, bucket, cache, loading, pc, endpoint, credential, token, keyResult,
             canva, nextArgs, handlerRan, responses, cookieCleared, fetches,
             received, configured, aborted>>
signedVars == <<request, secret, receivedAtMs, verdict>>
linkVars == <<users, calls, linked, answer>>
vars == <<jwtVars, signedVars, linkVars>>

NoEntry == -1
NoToken == <<>>

\* The JwksClient of a request's middleware: the module's (index.ts:20), or
\* the one createJwtMiddleware builds for this request (index.ts:467).
ClientFor(ep, r) ==
  IF ep = "redirectCanvaToSwayTribe" THEN r ELSE SharedClient

ClientOf(r) == ClientFor(endpoint[r], r)

JwtInit ==
  /\ now = 0
  /\ bucket = [c \in Clients |-> JwksRequestsPerMinute]
  /\ cache = [c \in Clients |-> [k \in Kids |-> NoEntry]]
  /\ loading = [c \in Clients |-> {}]
  /\ pc = [r \in Requests |-> "idle"]
  /\ endpoint = [r \in Requests |-> "none"]
  /\ credential = [r \in Requests |-> Absent]
  /\ token = [r \in Requests |-> NoToken]
  /\ keyResult = [r \in Requests |-> NoError]
  /\ canva = [r \in Requests |-> NoIdentity]
  /\ nextArgs = [r \in Requests |-> <<>>]
  /\ handlerRan = [r \in Requests |-> FALSE]
  /\ responses = [r \in Requests |-> <<>>]
  /\ cookieCleared = [r \in Requests |-> FALSE]
  /\ fetches = [r \in Requests |-> 0]
  /\ received = [r \in Requests |-> NotReceived]
  /\ configured = [r \in Requests |-> NotConfigured]
  /\ aborted = [r \in Requests |-> FALSE]

\* Every account has its document, nothing is linked, no call is under way.
LinkInit ==
  /\ users = [a \in Accounts |-> NewUserDoc]
  /\ calls = [p \in Callers |-> Idle]
  /\ linked = {}
  /\ answer = NoAnswer

\* No signed request is under check.
Init ==
  /\ JwtInit
  /\ LinkInit
  /\ request = NoRequest
  /\ secret = <<>>
  /\ receivedAtMs = 0
  /\ verdict = Pending

(***************************************************************************)
(* The JwksClient: cache: true, cacheMaxAge: CACHE_EXPIRY_MS, rateLimit.   *)
(***************************************************************************)
\* A cached key is served until it is older than cacheMaxAge.
IsCached(c, kid) ==
  /\ cache[c][kid] # NoEntry
  /\ now - cache[c][kid] <= CACHE_EXPIRY_MS

\* How jwksClient.getSigningKey(kid) is answered: from the cache, by a fetch
\* already in flight for kid, by the rate limiter's refusal, or by a new fetch.
LookupKind(c, kid) ==
  IF IsCached(c, kid) THEN "cache"
  ELSE IF kid \in loading[c] THEN "joined"
  ELSE IF bucket[c] = 0 THEN "rateLimited"
  ELSE "fetch"

\* What a finished fetch of the key set settles getSigningKey(kid) with.
FetchError(kid, outcome) ==
  IF outcome = "non200" THEN Err("JwksError", "Http Error")
  ELSE IF outcome = "timeout" THEN Err("Error", "timeout")
  ELSE IF kid \notin JwksKeys
  THEN Err("SigningKeyNotFoundError", "Unable to find a signing key")
  ELSE NoError

FetchOutcomes == {"keys", "non200", "timeout"}

(***************************************************************************)
(* Operations.                                                             *)
(***************************************************************************)
\* Request r is left as `s` says.
Leave(r, s) ==
  /\ pc' = [pc EXCEPT ![r] = s.pc]
  /\ canva' = [canva EXCEPT ![r] = s.canva]
  /\ nextArgs' = [nextArgs EXCEPT ![r] = s.nextArgs]
  /\ handlerRan' = [handlerRan EXCEPT ![r] = s.handlerRan]
  /\ responses' = [responses EXCEPT ![r] = s.responses]

\* The middleware from its start to `await jwksClient.getSigningKey(kid)`
\* (lines 60-76), and on to its end when the lookup needs no fetch.
JwtMiddleware(r, ep, cred, environment) ==
  LET got == getTokenFromRequest(ep, cred)
      kid == JwtDecode(got.token).kid
      c == ClientFor(ep, r)
      how == LookupKind(c, kid)
      rateLimited == Err("JwksRateLimitError", "Too many requests")
  IN  /\ credential' = [credential EXCEPT ![r] = cred]
      /\ IF got.error # NoError
         THEN /\ Leave(r, Settle(ep, Caught(got.error), environment))
              /\ UNCHANGED <<token, keyResult, bucket, cache, loading, fetches>>
         ELSE /\ token' = [token EXCEPT ![r] = got.token]
              /\ IF kid = Null
                 THEN /\ Leave(r, Settle(ep, Reject(sendUnauthorizedResponse(NoMessage)),
                                         environment))
                      /\ UNCHANGED <<keyResult, bucket, cache, loading, fetches>>
                 ELSE /\ IF how = "cache"
                         THEN Leave(r, Settle(ep, AfterKey(got.token, NoError), environment))
                         ELSE IF how = "rateLimited"
                         THEN Leave(r, Settle(ep, AfterKey(got.token, rateLimited), environment))
                         ELSE /\ pc' = [pc EXCEPT ![r] = "awaitKey"]
                              /\ UNCHANGED <<canva, nextArgs, handlerRan, responses>>
                      /\ keyResult' = [keyResult EXCEPT ![r] =
                                         IF how = "rateLimited" THEN rateLimited ELSE NoError]
                      \* a stale entry is dropped when it is looked up
                      /\ cache' = [cache EXCEPT ![c][kid] = IF how = "cache" THEN @ ELSE NoEntry]
                      /\ loading' = [loading EXCEPT ![c] = IF how = "fetch" THEN @ \cup {kid} ELSE @]
                      /\ bucket' = [bucket EXCEPT ![c] = IF how = "fetch" THEN @ - 1 ELSE @]
                      /\ fetches' = [fetches EXCEPT ![r] = IF how = "fetch" THEN @ + 1 ELSE @]

\* A request reaches isUserLinkedToCanva, which hands it to the module's
\* middleware (index.ts:290-294).
ReceiveBearer(r) ==
  /\ pc[r] = "idle"
  /\ \E ep \in BearerEndpoints : \E cred \in AuthorizationHeaders(r) :
       /\ endpoint' = [endpoint EXCEPT ![r] = ep]
       /\ JwtMiddleware(r, ep, cred, "NONE")
  /\ \E method \in Methods(r) :
       received' = [received EXCEPT ![r] = Received(method, NoCookie, Null, NoMessage)]
  /\ UNCHANGED <<now, cookieCleared, configured, aborted>>
  /\ UNCHANGED <<signedVars, linkVars>>

\* The nonces and the cookies /configuration/start has sent.
IssuedNonces ==
  { configured[q].redirect.nonce : q \in { p \in Requests : configured[p] # NotConfigured } }
IssuedCookies ==
  { configured[q].cookie.value : q \in { p \in Requests : configured[p] # NotConfigured } }

\* A request reaches unlinkUserFromCanva at /configuration/start, which sets
\* the nonce cookie and redirects to Canva (index.ts:385-419).
ConfigurationStart(r) ==
  /\ pc[r] = "idle"
  /\ \E nonce \in Nonces \ IssuedNonces :
     \E method \in Methods(r) : \E state \in CanvaStates(r) :
       /\ received' = [received EXCEPT ![r] = Received(method, NoCookie, Null, state)]
       /\ configured' = [configured EXCEPT ![r] =
                           Configured(NonceWithExpiryCookie(nonce, now),
                                      ConfigureLinkRedirect(state, nonce))]
  /\ endpoint' = [endpoint EXCEPT ![r] = "unlinkUserFromCanva/configuration/start"]
  /\ pc' = [pc EXCEPT ![r] = "done"]
  /\ responses' = [responses EXCEPT ![r] =
                     <<Response("handler", 302, "canva/apps/configure/link", NoMessage)>>]
  /\ UNCHANGED <<now, bucket, cache, loading, credential, token, keyResult, canva,
                 nextArgs, handlerRan, cookieCleared, fetches, aborted>>
  /\ UNCHANGED <<signedVars, linkVars>>

\* The client of a request that waits for its key closes the connection.
\* Nothing in the middleware listens for it (lines 60-101).
Abort(r) ==
  /\ pc[r] = "awaitKey"
  /\ ~ aborted[r]
  /\ aborted' = [aborted EXCEPT ![r] = TRUE]
  /\ UNCHANGED <<now, bucket, cache, loading, pc, endpoint, credential, token,
                 keyResult, canva, nextArgs, handlerRan, responses, cookieCleared,
                 fetches, received, configured>>
  /\ UNCHANGED <<signedVars, linkVars>>

\* A request reaches redirectCanvaToSwayTribe, which checks the nonce (lines
\* 431-463) and then builds a middleware of its own and runs it (466-468).
ReceiveRedirect(r) ==
  /\ pc[r] = "idle"
  /\ endpoint' = [endpoint EXCEPT ![r] = "redirectCanvaToSwayTribe"]
  /\ \E cookie \in NonceCookiesOf(r, now) \cup IssuedCookies :
     \E nonceQuery \in NonceQueriesOf(r) :
     \E method \in Methods(r) : \E state \in CanvaStates(r) :
       /\ received' = [received EXCEPT ![r] = Received(method, cookie, nonceQuery, state)]
       /\ cookieCleared' = [cookieCleared EXCEPT ![r] = CookieParses(cookie)]
       /\ IF CookieParses(cookie) /\ NonceIsValid(cookie, nonceQuery, now)
          THEN \E cred \in TokenQueryParams(r) : \E env \in Environments :
                 JwtMiddleware(r, "redirectCanvaToSwayTribe", cred, env)
          ELSE /\ pc' = [pc EXCEPT ![r] = "done"]
               /\ responses' = [responses EXCEPT ![r] = <<InvalidNonceRedirectTo(state)>>]
               /\ UNCHANGED <<credential, token, keyResult, canva, nextArgs,
                              handlerRan, bucket, cache, loading, fetches>>
  /\ UNCHANGED <<now, configured, aborted>>
  /\ UNCHANGED <<signedVars, linkVars>>

\* Every request that waits for a key of client c, whatever its kid.
WaitingAnyKid(c, kid) ==
  { r \in Requests : pc[r] = "awaitKey" /\ ClientOf(r) = c }

\* The requests whose getSigningKey(kid) waits for the fetch of client c.
Waiting(c, kid) ==
  { r \in Requests : /\ pc[r] = "awaitKey"
                     /\ ClientOf(r) = c
                     /\ JwtDecode(token[r]).kid = kid }

\* A fetch of the key set ends: with the keys, a non-200 answer or a timeout.
\* A key that was found is cached; every waiting lookup settles with the
\* outcome and its middleware runs to its end (lines 77-120).
FetchDone(c, kid, outcome, environment) ==
  LET settled(r) == Settle(endpoint[r], AfterKey(token[r], FetchError(kid, outcome)),
                           environment)
      W == Waiting(c, kid)
  IN  /\ kid \in loading[c]
      /\ loading' = [loading EXCEPT ![c] = @ \ {kid}]
      /\ cache' = [cache EXCEPT ![c][kid] =
                     IF FetchError(kid, outcome) = NoError THEN now ELSE @]
      /\ keyResult' = [r \in Requests |->
                         IF r \in W THEN FetchError(kid, outcome) ELSE keyResult[r]]
      /\ pc' = [r \in Requests |-> IF r \in W THEN settled(r).pc ELSE pc[r]]
      /\ canva' = [r \in Requests |-> IF r \in W THEN settled(r).canva ELSE canva[r]]
      /\ nextArgs' = [r \in Requests |->
                        IF r \in W THEN settled(r).nextArgs ELSE nextArgs[r]]
      /\ handlerRan' = [r \in Requests |->
                          IF r \in W THEN settled(r).handlerRan ELSE handlerRan[r]]
      /\ responses' = [r \in Requests |->
                         IF r \in W THEN settled(r).responses ELSE responses[r]]
      /\ UNCHANGED <<now, bucket, endpoint, credential, token, cookieCleared,
                     fetches, received, configured, aborted>>
      /\ UNCHANGED <<signedVars, linkVars>>

\* The query of isUserLinkedToCanva's handler answers (lines 300-313).
HandlerQueryDone(r) ==
  /\ pc[r] = "handler"
  /\ \E found \in BOOLEAN :
       responses' = [responses EXCEPT ![r] = Append(@, LinkedResponse(found))]
  /\ pc' = [pc EXCEPT ![r] = "done"]
  /\ UNCHANGED <<now, bucket, cache, loading, endpoint, credential, token,
                 keyResult, canva, nextArgs, handlerRan, cookieCleared, fetches,
                 received, configured, aborted>>
  /\ UNCHANGED <<signedVars, linkVars>>

\* Time passes.  No fetch outlives its timeout, and the rate limiter's
\* budget is whole again after a minute.
Tick ==
  /\ now + TickMinutes <= MaxTicks * TickMinutes
  /\ \A c \in Clients : loading[c] = {}
  /\ now' = now + TickMinutes
  /\ bucket' = [c \in Clients |-> JwksRequestsPerMinute]
  /\ UNCHANGED <<cache, loading, pc, endpoint, credential, token, keyResult,
                 canva, nextArgs, handlerRan, responses, cookieCleared, fetches,
                 received, configured, aborted>>
  /\ UNCHANGED <<signedVars, linkVars>>

Next ==
  \/ \E r \in Requests : ReceiveBearer(r)
  \/ \E r \in Requests : ConfigurationStart(r)
  \/ \E r \in Requests : ReceiveRedirect(r)
  \/ \E r \in Requests : Abort(r)
  \/ \E c \in Clients : \E kid \in Kids : \E outcome \in FetchOutcomes :
     \E env \in Environments :
       FetchDone(c, kid, outcome, env)
  \/ \E r \in Requests : HandlerQueryDone(r)
  \/ Tick

Spec == Init /\ [][Next]_vars

(***************************************************************************)
(* The signed-request checks, each applied to a request of its form.       *)
(***************************************************************************)
SignedInit ==
  /\ JwtInit
  /\ LinkInit
  /\ \E s \in Scenarios :
       /\ request = s.request
       /\ secret = s.secret
       /\ receivedAtMs = s.receivedAtMs
  /\ verdict = Pending

VerifyPost ==
  /\ request.form = "POST" /\ ~ verdict.done
  /\ verdict' = isValidPostRequest(secret, request, receivedAtMs)
  /\ UNCHANGED <<request, secret, receivedAtMs, jwtVars, linkVars>>

VerifyGet ==
  /\ request.form = "GET" /\ ~ verdict.done
  /\ verdict' = isValidGetRequest(secret, request, receivedAtMs)
  /\ UNCHANGED <<request, secret, receivedAtMs, jwtVars, linkVars>>

VerifyRedirect ==
  /\ request.form = "REDIRECT" /\ ~ verdict.done
  /\ verdict' = isValidRedirectUrl(secret, request, receivedAtMs)
  /\ UNCHANGED <<request, secret, receivedAtMs, jwtVars, linkVars>>

SignedNext ==
  \/ VerifyPost
  \/ VerifyGet
  \/ VerifyRedirect

SignedSpec == SignedInit /\ [][SignedNext]_vars

(***************************************************************************)
(* Linking and unlinking.  Each function reads the collection, then writes *)
(* in a second step; other calls run between the two.                      *)
(***************************************************************************)
\* linkUserToCanva up to `await userDoc.get()` (lines 218-251).
LinkRead(p, account, userId, brandId) ==
  /\ calls[p] = Idle
  /\ Cardinality(linked) < MaxLinked
  /\ calls' = [calls EXCEPT ![p] = Call("link", account, userId, brandId,
                                        users[account].hasBrandIds, 0)]
  /\ UNCHANGED <<users, linked, answer>>
  /\ UNCHANGED <<jwtVars, signedVars>>

\* linkUserToCanva from its set to its return (lines 256-274).
LinkWrite(p) ==
  LET c == calls[p]
  IN  /\ c.pc = "link"
      /\ users' = [users EXCEPT ![c.account] =
                     LinkSet(@, c.hadBrandIds, c.userId, c.brandId)]
      /\ linked' = linked \cup {<<c.account, c.userId, c.brandId>>}
      /\ UNCHANGED answer
      /\ calls' = [calls EXCEPT ![p] = Idle]
      /\ UNCHANGED <<jwtVars, signedVars>>

\* unlinkUserFromCanva, for the identity the middleware attached, up to its
\* query's answer (lines 335-356); none or several documents end it (342-351,
\* 377-381).
UnlinkRead(p, userId, brandId) ==
  LET found == Matching(users, userId, brandId)
      doc == CHOOSE a \in found : TRUE
  IN  /\ calls[p] = Idle
      /\ IF Cardinality(found) = 1
         THEN /\ calls' = [calls EXCEPT ![p] =
                             Call("unlink", doc, userId, brandId, TRUE,
                                  Cardinality(users[doc].canvaBrandIds))]
              /\ UNCHANGED answer
         ELSE /\ answer' = Answer("unlinkUserFromCanva", userId, brandId, 401, FALSE)
              /\ UNCHANGED calls
      /\ UNCHANGED <<users, linked>>
      /\ UNCHANGED <<jwtVars, signedVars>>

\* unlinkUserFromCanva from its update to its answer (lines 358-376).
UnlinkWrite(p) ==
  LET c == calls[p]
  IN  /\ c.pc = "unlink"
      /\ users' = [users EXCEPT ![c.account] = UnlinkUpdate(@, c.length, c.brandId)]
      /\ linked' = linked \ {<<c.account, c.userId, c.brandId>>}
      /\ UNCHANGED answer
      /\ calls' = [calls EXCEPT ![p] = Idle]
      /\ UNCHANGED <<jwtVars, signedVars>>

\* isUserLinkedToCanva's handler, for the identity the middleware attached
\* (lines 296-321).
IsUserLinked(userId, brandId) ==
  /\ answer' = IF Matching(users, userId, brandId) = {}
                THEN Answer("isUserLinkedToCanva", userId, brandId, 401, FALSE)
                ELSE Answer("isUserLinkedToCanva", userId, brandId, 200, TRUE)
  /\ UNCHANGED <<users, calls, linked>>
  /\ UNCHANGED <<jwtVars, signedVars>>

LinkNext ==
  \/ \E p \in Linkers : \E a \in Accounts : \E u \in CanvaUsers : \E b \in CanvaBrands :
       LinkRead(p, a, u, b)
  \/ \E p \in Linkers : LinkWrite(p)
  \/ \E p \in Callers : \E u \in CanvaUsers : \E b \in CanvaBrands :
       UnlinkRead(p, u, b)
  \/ \E p \in Callers : UnlinkWrite(p)
  \/ \E u \in CanvaUsers : \E b \in CanvaBrands : IsUserLinked(u, b)

LinkSpec == Init /\ [][LinkNext]_vars

(***************************************************************************)
(* Vocabulary of the properties.                                           *)
(***************************************************************************)
\* The nonce check of redirectCanvaToSwayTribe turned r away.
StoppedByNonce(r) == responses[r] = <<InvalidNonceRedirectTo(received[r].state)>>

\* The middleware was entered for r (a redirect stopped by the nonce check
\* never enters it) and has come to its end.
MiddlewareEnded(r) ==
  /\ pc[r] \in {"handler", "done"}
  /\ endpoint[r] \in Endpoints
  /\ ~ (endpoint[r] = "redirectCanvaToSwayTribe" /\ StoppedByNonce(r))

\* The lookup of the key of r's token has settled.
KeyLookedUp(r) ==
  /\ MiddlewareEnded(r)
  /\ token[r] # NoToken
  /\ WellFormed(token[r])
  /\ token[r][1] # "n"

IsFromMiddleware(resp) == resp.from = "jwtMiddleware"
MiddlewareResponses(r) == SelectSeq(responses[r], IsFromMiddleware)

IsUnauthorized(resp) ==
  /\ resp.from = "jwtMiddleware"
  /\ resp.status = 401
  /\ resp.body = "unauthorized"

SignatureValid(t) == t[5] = "v"
Expired(t) == t[3] = "e"
AudienceValid(t) == t[3] \in {"p", "q", "e", "u", "d", "l"}
UserIdMissing(t) == t[3] = "u"
BrandIdMissing(t) == t[3] = "d"

\* The clients the requests to endpoint ep have used so far.
ClientsOfEndpoint(ep) ==
  IF ep = "redirectCanvaToSwayTribe"
  THEN { q \in Requests : endpoint[q] = ep }
  ELSE {SharedClient}

FetchedAt(ep, kid) ==
  { cache[c][kid] : c \in ClientsOfEndpoint(ep) } \ {NoEntry}

\* In this step the middleware of r looks up the key of its token.
LooksUp(r) ==
  /\ pc[r] = "idle"
  /\ token'[r] # NoToken
  /\ JwtDecode(token'[r]).kid # Null

\* Every check of the middleware passed for r.
EveryStepSucceeded(r) ==
  /\ KeyLookedUp(r)
  /\ keyResult[r] = NoError
  /\ SignatureValid(token[r]) /\ ~ Expired(token[r]) /\ AudienceValid(token[r])
  /\ ~ UserIdMissing(token[r]) /\ ~ BrandIdMissing(token[r])

\* The messages of the JWTAuthorizationError an extractor throws.
ExtractionMessages(ep) ==
  IF ep = "redirectCanvaToSwayTribe"
  THEN { "Missing \"canva_user_token\" query parameter",
         "Invalid \"canva_user_token\" query parameter" }
  ELSE { "Missing the \"Authorization\" header",
         "Missing a \"Bearer\" token in the \"Authorization\" header",
         "Invalid \"Bearer\" token in the \"Authorization\" header" }

(***************************************************************************)
(* C1.  On a bearer-JWT endpoint the handler body behind the middleware    *)
(* never runs for a request the middleware did not authenticate.           *)
(***************************************************************************)
C1_HandlerOnlyWhenAuthenticated ==
  \A r \in Requests : handlerRan[r] => canva[r] # NoIdentity

(***************************************************************************)
(* C2.  Every rejection by the middleware is exactly one 401 response      *)
(* {error: "unauthorized", message} of the middleware.                     *)
(***************************************************************************)
C2_RejectionIsOne401 ==
  \A r \in Requests :
    MiddlewareEnded(r) /\ canva[r] = NoIdentity =>
      /\ Len(MiddlewareResponses(r)) = 1
      /\ IsUnauthorized(MiddlewareResponses(r)[1])

(***************************************************************************)
(* C3.  A failed fetch of the key set (non-200 answer, timeout) is not     *)
(* retried and ends the request as a 401 unauthorized rejection.           *)
(***************************************************************************)
C3_FetchFailureIsUnauthorized ==
  \A r \in Requests :
    MiddlewareEnded(r) /\ keyResult[r].class \in {"JwksError", "Error"} =>
      /\ fetches[r] <= 1
      /\ Len(responses[r]) = 1
      /\ IsUnauthorized(responses[r][1])
      /\ ~ handlerRan[r]

(***************************************************************************)
(* C4.  A token with a valid signature and audience whose expiry is past   *)
(* is rejected with 401 "Token expired".                                   *)
(***************************************************************************)
C4_ExpiredTokenSaysExpired ==
  \A r \in Requests :
    /\ KeyLookedUp(r) /\ keyResult[r] = NoError
    /\ SignatureValid(token[r]) /\ AudienceValid(token[r]) /\ Expired(token[r])
    => responses[r] = <<sendUnauthorizedResponse("Token expired")>>

(***************************************************************************)
(* C5.  The signature is checked before the payload fields: a token with   *)
(* an invalid signature and no userId is never rejected by the payload     *)
(* check (401 without message), and once its key is resolved it is         *)
(* rejected as invalid (401 "Token is invalid") with no identity attached  *)
(* and the next stage not called.                                          *)
(***************************************************************************)
C5_SignatureBeforePayload ==
  \A r \in Requests :
    KeyLookedUp(r) /\ ~ SignatureValid(token[r]) /\ UserIdMissing(token[r]) =>
      /\ responses[r] # <<sendUnauthorizedResponse(NoMessage)>>
      /\ canva[r] = NoIdentity
      /\ keyResult[r] = NoError =>
           /\ responses[r] = <<sendUnauthorizedResponse("Token is invalid")>>
           /\ nextArgs[r] = <<>>

C5_Witness ==
  \E r \in Requests :
    /\ token[r] = Tok("a", "u", "i")
    /\ pc[r] = "done"
    /\ keyResult[r] = NoError
    /\ responses[r] = <<sendUnauthorizedResponse("Token is invalid")>>

(***************************************************************************)
(* C6.  On every endpoint, a lookup of a kid whose key the endpoint        *)
(* fetched at t0 is served from the cache, without a fetch, before         *)
(* t0 + 60 minutes, and is not served from the cache after t0 + 60         *)
(* minutes.                                                                *)
(***************************************************************************)
C6_CacheTtl ==
  [][ \A r \in Requests :
        LooksUp(r) =>
          LET times == FetchedAt(endpoint'[r], JwtDecode(token'[r]).kid)
          IN  /\ (\E t0 \in times : now < t0 + CACHE_EXPIRY_MS) =>
                   fetches'[r] = 0 /\ pc'[r] # "awaitKey"
              /\ (times # {} /\ \A t0 \in times : now > t0 + CACHE_EXPIRY_MS) =>
                   pc'[r] = "awaitKey"
    ]_vars

(***************************************************************************)
(* C7.  Requests that wait at the same time for the key of the same kid    *)
(* have between them started at most one fetch of the key set.             *)
(***************************************************************************)
C7_CoalescedFetch ==
  \A r1 \in Requests : \A r2 \in Requests \ {r1} :
    /\ pc[r1] = "awaitKey" /\ pc[r2] = "awaitKey"
    /\ JwtDecode(token[r1]).kid = JwtDecode(token[r2]).kid
    => fetches[r1] + fetches[r2] <= 1

(***************************************************************************)
(* C8.  When the fetched key set does not hold the token's kid, the        *)
(* request is rejected with 401 "Public key not found", the handler does   *)
(* not run, and the request causes no second fetch: it started at most     *)
(* one, and no fetch for its kid goes on unless some request waits for it. *)
(***************************************************************************)
C8_UnknownKidRejectedOnce ==
  \A r \in Requests :
    MiddlewareEnded(r) /\ keyResult[r].class = "SigningKeyNotFoundError" =>
      /\ responses[r] = <<sendUnauthorizedResponse("Public key not found")>>
      /\ fetches[r] <= 1
      /\ JwtDecode(token[r]).kid \in loading[ClientOf(r)] =>
           Waiting(ClientOf(r), JwtDecode(token[r]).kid) # {}
      /\ ~ handlerRan[r]
      /\ canva[r] = NoIdentity

C8_Witness ==
  \E r \in Requests :
    /\ token[r] = Tok("x", "p", "v")
    /\ keyResult[r].class = "SigningKeyNotFoundError"
    /\ fetches[r] = 1
    /\ responses[r] = <<sendUnauthorizedResponse("Public key not found")>>

(***************************************************************************)
(* C9.  The middleware calls the next stage at most once, and it attaches  *)
(* an identity or calls the next stage only when every verification step   *)
(* has succeeded; the identity is then {appId: aud, brandId, userId} of    *)
(* the token's payload, and appId holds the application identifier.        *)
(***************************************************************************)
C9_NextOnlyWhenVerified ==
  \A r \in Requests :
    /\ Len(nextArgs[r]) <= 1
    /\ (nextArgs[r] # <<>> \/ canva[r] # NoIdentity) =>
         /\ EveryStepSucceeded(r)
         /\ nextArgs[r] = <<NoError>>
         /\ canva[r] = [appId |-> PayloadOf(token[r][3]).aud,
                        brandId |-> PayloadOf(token[r][3]).brandId,
                        userId |-> PayloadOf(token[r][3]).userId]
         /\ AppId \in canva[r].appId

(***************************************************************************)
(* C10.  A token that passes the signature, expiry and audience checks     *)
(* but lacks userId or brandId is rejected with 401 (no message): no       *)
(* identity is attached and the next stage is not called.                  *)
(***************************************************************************)
C10_MissingFieldRejected ==
  \A r \in Requests :
    /\ KeyLookedUp(r) /\ keyResult[r] = NoError
    /\ SignatureValid(token[r]) /\ ~ Expired(token[r]) /\ AudienceValid(token[r])
    /\ (UserIdMissing(token[r]) \/ BrandIdMissing(token[r]))
    => /\ responses[r] = <<sendUnauthorizedResponse(NoMessage)>>
       /\ canva[r] = NoIdentity
       /\ nextArgs[r] = <<>>
       /\ ~ handlerRan[r]

C10_Witness ==
  \E r \in Requests :
    /\ token[r] = Tok("a", "d", "v")
    /\ pc[r] = "done"
    /\ keyResult[r] = NoError
    /\ responses[r] = <<sendUnauthorizedResponse(NoMessage)>>

(***************************************************************************)
(* C11.  With the header extraction, a request with no Authorization       *)
(* header, with a header that is not "Bearer <token>" or with a token      *)
(* holding a character outside the token alphabet, and with the query      *)
(* extraction a request whose canva_user_token parameter is absent, not a  *)
(* string or badly shaped, is rejected with 401 and the extractor's        *)
(* message; no token is decoded and no key is looked up for it.            *)
(***************************************************************************)
C11_MalformedCredentialRejected ==
  \A r \in Requests :
    /\ pc[r] # "idle"
    /\ ~ (endpoint[r] = "redirectCanvaToSwayTribe" /\ StoppedByNonce(r))
    /\ \/ endpoint[r] \in BearerEndpoints /\ credential[r] \in MalformedHeaders
       \/ endpoint[r] = "redirectCanvaToSwayTribe" /\ credential[r] \in MalformedQueryParams
    => /\ pc[r] = "done"
       /\ token[r] = NoToken
       /\ fetches[r] = 0
       /\ keyResult[r] = NoError
       /\ canva[r] = NoIdentity /\ nextArgs[r] = <<>> /\ ~ handlerRan[r]
       /\ \E message \in ExtractionMessages(endpoint[r]) :
            responses[r] = <<sendUnauthorizedResponse(message)>>

C11_Witness ==
  \E r \in Requests :
    /\ endpoint[r] \in BearerEndpoints
    /\ credential[r] = Str(Bearer \o <<" ", "#">>)
    /\ pc[r] = "done"
    /\ responses[r] = <<sendUnauthorizedResponse(
                          "Invalid \"Bearer\" token in the \"Authorization\" header")>>

(***************************************************************************)
(* Vocabulary of the properties of signed requests.                        *)
(***************************************************************************)
\* The signing time the request claims.
ClaimOf(req) ==
  IF req.form = "REDIRECT"
  THEN Get(req.query, <<"t", "i", "m", "e">>)
  ELSE Get(req.headers, timestampHeader)

\* The value that is searched for the signature.
SignaturesOf(req) ==
  IF req.form = "REDIRECT"
  THEN Get(req.query, <<"s", "i", "g", "n", "a", "t", "u", "r", "e", "s">>)
  ELSE Get(req.headers, signaturesHeader)

\* The check is over and the timestamp passed: a payload was hashed.
TimestampAccepted == verdict.done /\ verdict.payload # NotHashed
TimestampRejected == verdict.done /\ verdict.payload = NotHashed

\* The check is over and the request is authenticated.
Authenticated == verdict.done /\ verdict.valid

\* The claim is a run of decimal digits.
IsNumeric(claim) ==
  /\ claim.kind = "string" /\ claim.text # <<>>
  /\ \A i \in 1..Len(claim.text) : IsDigit(claim.text[i])

\* b is a with exactly one byte changed.
OneByteApart(a, b) ==
  /\ Len(a) = Len(b)
  /\ Cardinality({ i \in 1..Len(a) : a[i] # b[i] }) = 1

\* The payload with one of its bytes changed.
OneByteChanged(payload) ==
  { [payload EXCEPT ![i] = ChangeByte(@)] : i \in {1, Len(payload)} }

\* The members of a comma-separated list of candidate signatures.
RECURSIVE Candidates(_)
Candidates(text) ==
  IF \E i \in 1..Len(text) : text[i] = ","
  THEN LET comma == CHOOSE i \in 1..Len(text) :
                      text[i] = "," /\ \A j \in 1..(i - 1) : text[j] # ","
       IN  {SubSeq(text, 1, comma - 1)} \cup Candidates(SubSeq(text, comma + 1, Len(text)))
  ELSE {text}

\* The outcome of the check of a request by the function of its form.
Check(req, sec, ms) ==
  CASE req.form = "POST" -> isValidPostRequest(sec, req, ms)
    [] req.form = "GET" -> isValidGetRequest(sec, req, ms)
    [] OTHER -> isValidRedirectUrl(sec, req, ms)

\* A name with its upper-case letters (code units 65 to 90) in lower case.
FoldCase(name) ==
  [i \in 1..Len(name) |->
     IF CodeUnit(name[i]) \in 65..90 THEN Ascii[CodeUnit(name[i]) + 32 - 31] ELSE name[i]]

\* The names stand in case-insensitive lexicographic order.
InCaseInsensitiveOrder(names) ==
  \A i \in 1..(Len(names) - 1) :
    ~ StringLess(FoldCase(names[i + 1]), FoldCase(names[i]))

\* text is the ":"-join of the values of the selected names of the object,
\* taken in case-insensitive lexicographic order of name.
IsCanonical(text, object, selectedNames) ==
  \E names \in Arrangements(selectedNames) :
    /\ InCaseInsensitiveOrder(names)
    /\ text = join([i \in 1..Len(names) |-> StringOf(Get(object, names[i]))])

(***************************************************************************)
(* C12.  The timestamp check accepts a claimed time iff it lies less than  *)
(* 300 seconds from the time of the check: 299 s before or after is        *)
(* accepted, 300 s or more before or after is rejected, and the answer for *)
(* now - d is the answer for now + d.                                      *)
(***************************************************************************)
C12_TimestampWindow ==
  verdict.done =>
    LET nowSeconds == receivedAtMs \div 1000
    IN  /\ \A d \in Skews :
             ClaimOf(request) = Str(Digits(nowSeconds + d)) /\ receivedAtMs % 1000 = 0 =>
               (TimestampAccepted <=> (-300 < d /\ d < 300))
        /\ IsNumeric(ClaimOf(request)) =>
             (TimestampAccepted <=>
                /\ receivedAtMs - 300000 < 1000 * Decimal(ClaimOf(request).text)
                /\ 1000 * Decimal(ClaimOf(request).text) < receivedAtMs + 300000)
        /\ \A d \in Skews :
             isValidTimestamp(Num(nowSeconds - d), 1000 * nowSeconds)
               = isValidTimestamp(Num(nowSeconds + d), 1000 * nowSeconds)

C12_Witness ==
  /\ receivedAtMs = 1000000
  /\ ClaimOf(request) = Str(Digits(1299))
  /\ TimestampAccepted

(***************************************************************************)
(* C13.  A signed request of any form whose timestamp claim is missing,    *)
(* empty or not a number is rejected by the timestamp check, before any    *)
(* payload is hashed, whatever signature it carries.  The clock of the     *)
(* check is more than 300 s past the epoch.                                *)
(***************************************************************************)
C13_BadClaimRejected ==
  verdict.done /\ ClaimOf(request) \in NotNumeric \cup {Absent, Str(<<>>)} =>
    TimestampRejected /\ ~ Authenticated

C13_Witness ==
  /\ request.form = "REDIRECT"
  /\ ClaimOf(request) \in NotNumeric
  /\ SignaturesOf(request) = Str(calculateSignature(RedirectPayload(request), secret))
  /\ TimestampRejected

(***************************************************************************)
(* C14.  The recomputed hex signature, supplied exactly, authenticates the *)
(* request; supplied with one more character after it, it does not.        *)
(***************************************************************************)
C14_ExactSignatureOnly ==
  TimestampAccepted =>
    LET signature == calculateSignature(verdict.payload, secret)
    IN  /\ SignaturesOf(request) = Str(signature) => Authenticated
        /\ SignaturesOf(request) = Str(signature \o <<"0">>) => ~ Authenticated

C16_AnyCandidate ==
  TimestampAccepted =>
    (Authenticated <=>
       calculateSignature(verdict.payload, secret)
         \in Candidates(StringOf(SignaturesOf(request))))

(***************************************************************************)
(* C17.  Canonicalization does not depend on the order of insertion: for   *)
(* every arrangement of the headers and of the query parameters of a       *)
(* request the canonical header string, the canonical query string, the    *)
(* payload and the outcome of the check are the same.                      *)
(***************************************************************************)
C17_OrderInvariant ==
  verdict.done /\ request.form \in {"POST", "GET"} =>
    \A h \in Arrangements(request.headers) : \A q \in Arrangements(request.query) :
      /\ createHeaderString(h) = createHeaderString(request.headers)
      /\ createQueryParameterString(q) = createQueryParameterString(request.query)
      /\ Check([request EXCEPT !.headers = h, !.query = q], secret, receivedAtMs)
           = verdict

C17_Witness ==
  /\ Authenticated
  /\ request.form = "GET"
  /\ \E i, j \in 1..Len(request.headers) :
       /\ i < j
       /\ startsWith(request.headers[i].name, xPrefix)
       /\ startsWith(request.headers[j].name, xPrefix)
       /\ StringLess(request.headers[j].name, request.headers[i].name)
       /\ request.headers[j].name # signaturesHeader
       /\ request.headers[i].name # signaturesHeader
  /\ \E i, j \in 1..Len(request.query) :
       i < j /\ StringLess(request.query[j].name, request.query[i].name)

(***************************************************************************)
(* C18.  The canonical header string is the ":"-join of the values of the  *)
(* headers whose name starts with "x-" and is neither a signature header   *)
(* nor a forwarded header, in case-insensitive lexicographic order of      *)
(* name; the canonical query string is the ":"-join of the values of the   *)
(* query parameters whose name starts with "x-", in the same order.        *)
(***************************************************************************)
C18_CanonicalStrings ==
  LET headerSelected(name) ==
        /\ startsWith(name, <<"x", "-">>)
        /\ ~ startsWith(name, <<"x", "-", "c", "a", "n", "v", "a", "-", "s", "i", "g", "n", "a", "t", "u", "r", "e">>)
        /\ ~ startsWith(name, <<"x", "-", "f", "o", "r", "w", "a", "r", "d", "e", "d", "-">>)
      paramSelected(name) == startsWith(name, <<"x", "-">>)
  IN  verdict.done /\ request.form \in {"POST", "GET"} =>
        /\ IsCanonical(createHeaderString(request.headers), request.headers,
                       SelectSeq(Keys(request.headers), headerSelected))
        /\ request.form = "GET" =>
             IsCanonical(createQueryParameterString(request.query), request.query,
                         SelectSeq(Keys(request.query), paramSelected))

IsHookExample ==
  /\ verdict.done
  /\ request.form = "POST"
  /\ request.path = <<"/", "h", "o", "o", "k">>
  /\ request.rawBody = <<>>
  /\ secret = <<"c", "2", "V", "j", "c", "m", "V", "0">>
  /\ receivedAtMs = 1000000
  /\ Get(request.headers, timestampHeader) = Str(<<"1", "0", "0", "0">>)
  /\ \A i \in 1..Len(request.headers) :
       request.headers[i].name \in {timestampHeader, signaturesHeader}

\* The bytes of "secret".
SecretBytes == <<115, 101, 99, 114, 101, 116>>

(***************************************************************************)
(* C20.  In the example the payload that is hashed is "v1::/hook:", and    *)
(* the request that carries HMAC-SHA256("secret", "v1::/hook:") in hex as  *)
(* its signature is authenticated.                                         *)
(***************************************************************************)
C20_HookExample ==
  IsHookExample =>
    /\ verdict.payload = <<"v", "1", ":", ":", "/", "h", "o", "o", "k", ":">>
    /\ SignaturesOf(request) = Str(HexDigest(SecretBytes, <<"v", "1", ":", ":", "/", "h", "o", "o", "k", ":">>)) => Authenticated

(***************************************************************************)
(* C20, as the code has it.  The timestamp header passes the filter of     *)
(* the canonical header string: in the example the payload that is hashed  *)
(* is "v1:1000:/hook:", the request that carries                           *)
(* HMAC-SHA256("secret", "v1:1000:/hook:") in hex is authenticated and the *)
(* one that carries HMAC-SHA256("secret", "v1::/hook:") is not.            *)
(***************************************************************************)
C20_HookExampleWithTimestamp ==
  IsHookExample =>
    /\ verdict.payload = <<"v", "1", ":", "1", "0", "0", "0", ":", "/", "h", "o", "o", "k", ":">>
    /\ SignaturesOf(request) = Str(HexDigest(SecretBytes, <<"v", "1", ":", "1", "0", "0", "0", ":", "/", "h", "o", "o", "k", ":">>)) => Authenticated
    /\ SignaturesOf(request) = Str(HexDigest(SecretBytes, <<"v", "1", ":", ":", "/", "h", "o", "o", "k", ":">>)) => ~ Authenticated

C20_Witness ==
  /\ IsHookExample
  /\ SignaturesOf(request) = Str(HexDigest(SecretBytes, <<"v", "1", ":", "1", "0", "0", "0", ":", "/", "h", "o", "o", "k", ":">>))
  /\ Authenticated


(***************************************************************************)
(* The nonce of the configuration flow.                                    *)
(***************************************************************************)
\* Request r is received in this step by redirectCanvaToSwayTribe.
RedirectReceived(r) ==
  /\ pc[r] = "idle"
  /\ pc'[r] # "idle"
  /\ endpoint'[r] = "redirectCanvaToSwayTribe"

\* Request r reached redirectCanvaToSwayTribe and was processed.
RedirectProcessed(r) ==
  /\ endpoint[r] = "redirectCanvaToSwayTribe"
  /\ pc[r] # "idle"

\* The middleware of r was entered: it waits for the key, or has answered,
\* or has called next.
MiddlewareEntered(r) ==
  \/ pc[r] = "awaitKey"
  \/ nextArgs[r] # <<>>
  \/ MiddlewareResponses(r) # <<>>

\* C21: once redirectCanvaToSwayTribe has processed a request that presented
\* cookie c and nonce n, every later request to it that presents the same c
\* and n is redirected to the error page with errors=invalid_nonce.
C21_NonceSingleUse ==
  [][\A r \in Requests : \A q \in Requests \ {r} :
       (/\ RedirectProcessed(q)
        /\ RedirectReceived(r)
        /\ received'[r].cookie = received[q].cookie
        /\ received'[r].nonce = received[q].nonce)
       => StoppedByNonce(r)']_vars

\* C22: every request processed by redirectCanvaToSwayTribe had the
\* nonceWithExpiry cookie cleared, whatever cookie it presented.
C22_CookieAlwaysCleared ==
  \A r \in Requests : RedirectProcessed(r) => cookieCleared[r]

\* C23: a request to redirectCanvaToSwayTribe goes on to the JWT middleware
\* exactly when its cookie is a [nonce, expiry] pair, the time is not past
\* the expiry, and the cookie's and the query's nonce are non-empty strings
\* and equal; otherwise its only answer is the redirect with success=false,
\* its own state and errors=invalid_nonce, no token is read, no key is looked
\* up, next is not called and the handler does not run.
C23_NonceGate ==
  [][\A r \in Requests :
       RedirectReceived(r) =>
         LET c == received'[r].cookie
             n == received'[r].nonce
             ok == /\ c.kind = "pair"
                   /\ now <= c.expiry
                   /\ n # Null /\ n # "" /\ c.nonce # ""
                   /\ c.nonce = n
         IN  /\ ok <=> MiddlewareEntered(r)'
             /\ ~ ok =>
                  /\ responses'[r] = <<Response("handler", 302, "invalid_nonce",
                                                received'[r].state)>>
                  /\ pc'[r] = "done"
                  /\ token'[r] = NoToken
                  /\ fetches'[r] = 0
                  /\ canva'[r] = NoIdentity
                  /\ ~ handlerRan'[r]
                  /\ UNCHANGED <<cache, loading, bucket>>]_vars

\* One request passed the nonce check, another was turned away though its
\* cookie had not expired: its nonce differs from its cookie's.
C23_Witness ==
  \E r \in Requests : \E q \in Requests \ {r} :
    /\ RedirectProcessed(r) /\ MiddlewareEntered(r)
    /\ received[r].cookie.nonce = received[r].nonce
    /\ RedirectProcessed(q) /\ StoppedByNonce(q)
    /\ received[q].cookie.kind = "pair"
    /\ received[q].cookie.expiry >= now
    /\ received[q].cookie.nonce # received[q].nonce

\* C24: every request to /configuration/start is answered with a nonce that
\* was not sent before, a nonceWithExpiry cookie of that nonce and the time
\* five minutes ahead, flagged httpOnly, secure and signed with a maxAge of
\* five minutes, and a redirect to Canva's authorization page that carries
\* the request's state and the same nonce.
C24_ConfigurationStart ==
  [][\A r \in Requests :
       (pc[r] = "idle" /\ endpoint'[r] = "unlinkUserFromCanva/configuration/start") =>
         LET sent == configured'[r]
         IN  /\ sent.redirect.nonce \in Nonces \ IssuedNonces
             /\ sent.cookie.value =
                  [kind |-> "pair", nonce |-> sent.redirect.nonce, expiry |-> now + 5]
             /\ sent.cookie.httpOnly /\ sent.cookie.secure /\ sent.cookie.signed
             /\ sent.cookie.maxAge = 5
             /\ sent.redirect.location = "https://www.canva.com/apps/configure/link"
             /\ sent.redirect.state = received'[r].state
             /\ responses'[r] = <<Response("handler", 302, "canva/apps/configure/link",
                                           NoMessage)>>]_vars

\* Two requests were answered by /configuration/start, with different nonces
\* and their own states.
C24_Witness ==
  \E r \in Requests : \E q \in Requests \ {r} :
    /\ configured[r] # NotConfigured /\ configured[q] # NotConfigured
    /\ configured[r].redirect.nonce # configured[q].redirect.nonce
    /\ configured[r].redirect.state # configured[q].redirect.state

(***************************************************************************)
(* The request's method.                                                   *)
(***************************************************************************)
\* The method Canva calls redirectCanvaToSwayTribe with, and the answer an
\* earlier revision of the function gave to any other.
RedirectMethod == "GET"
InvalidMethodResponse == Response("handler", 401, "FAIL", "Invalid request method type")

\* C25: a request that reaches redirectCanvaToSwayTribe with another method
\* than GET is answered with the invalid-method rejection and nothing else
\* happens to it: the nonce cookie is not read or cleared, no token is
\* extracted, no key is looked up, the handler does not run.
C25_WrongMethodRejectedFirst ==
  [][\A r \in Requests :
       (RedirectReceived(r) /\ received'[r].method # RedirectMethod) =>
         /\ responses'[r] = <<InvalidMethodResponse>>
         /\ pc'[r] = "done"
         /\ ~ cookieCleared'[r]
         /\ token'[r] = NoToken
         /\ fetches'[r] = 0
         /\ ~ handlerRan'[r]
         /\ UNCHANGED <<cache, loading, bucket>>]_vars

(***************************************************************************)
(* Requests in flight together.                                            *)
(***************************************************************************)
\* C26: a request whose client closed the connection while its key was
\* being fetched gets nothing of the fetch's result: no identity is attached
\* to it and the handler behind the middleware does not run for it.
C26_AbortedNotServed ==
  \A r \in Requests :
    aborted[r] => (canva[r] = NoIdentity /\ ~ handlerRan[r])

\* C27: a request whose token decodes to a header without a kid is answered
\* 401 without a message in the step that receives it, and no signing key is
\* looked up or fetched for it: cache, fetches in flight and the rate
\* limiter's budget stay as they were.
C27_NoKidNoLookup ==
  [][\A r \in Requests :
       (/\ pc[r] = "idle" /\ pc'[r] # "idle"
        /\ endpoint'[r] \in Endpoints
        /\ token'[r] # NoToken
        /\ WellFormed(token'[r])
        /\ token'[r][1] = "n")
       => /\ responses'[r] = <<sendUnauthorizedResponse(NoMessage)>>
          /\ responses'[r][1].status = 401
          /\ responses'[r][1].message = NoMessage
          /\ pc'[r] = "done"
          /\ fetches'[r] = 0
          /\ nextArgs'[r] = <<>>
          /\ canva'[r] = NoIdentity
          /\ ~ handlerRan'[r]
          /\ UNCHANGED <<cache, loading, bucket>>]_vars

\* A token without a kid was answered while the key of another request's
\* token was being fetched.
C27_Witness ==
  \E r \in Requests : \E q \in Requests \ {r} :
    /\ token[r] = Tok("n", "p", "v")
    /\ pc[r] = "done"
    /\ responses[r] = <<sendUnauthorizedResponse(NoMessage)>>
    /\ pc[q] = "awaitKey"

\* The token of r passes every check of the middleware.
OwnTokenGood(r) ==
  /\ token[r] # NoToken
  /\ WellFormed(token[r])
  /\ SignatureValid(token[r]) /\ ~ Expired(token[r]) /\ AudienceValid(token[r])
  /\ ~ UserIdMissing(token[r]) /\ ~ BrandIdMissing(token[r])

C29_LinkedOnlyIfLinked ==
  [][(/\ answer' # answer
      /\ answer'.of = "isUserLinkedToCanva"
      /\ answer'.ok)
     => \E a \in Accounts : <<a, answer'.userId, answer'.brandId>> \in linked]_vars

\* C30: every update of unlinkUserFromCanva, however the calls interleave,
\* removes from the account's canvaBrandIds the brand of its token and
\* nothing else, leaves the other accounts alone, and leaves no account with
\* an empty canvaBrandIds and a canvaUserId other than ''.
C30_UnlinkClearsUser ==
  [][\A p \in Callers :
       (calls[p].pc = "unlink" /\ calls'[p] = Idle) =>
         LET a == calls[p].account
         IN  /\ users'[a].canvaBrandIds = users[a].canvaBrandIds \ {calls[p].brandId}
             /\ \A o \in Accounts \ {a} : users'[o] = users[o]
             /\ users'[a].canvaBrandIds = {} => users'[a].canvaUserId = ""]_vars
====
